---------------------------- MODULE Spec2Model ----------------------------
(***************************************************************************)
(* qubes-firewall (qubesagent/firewall.py): the daemon that reads per      *)
(* source address rule sets from QubesDB, translates them for iptables or  *)
(* nftables and installs them in a per-address chain.                      *)
(*                                                                         *)
(* Strings are TLA+ strings.  Where the code looks inside a string         *)
(* (replace, slicing, count, split) the model works on the string's        *)
(* characters (AddrText) or on the pieces the split yields: a rule value   *)
(* is the sequence of its space separated tokens, each token the sequence  *)
(* of its '=' separated parts; a watch path is the sequence of its '/'     *)
(* separated components.                                                   *)
(***************************************************************************)
EXTENDS Integers, Sequences, FiniteSets, TLC

VARIABLES
    backend,      \* "iptables" | "nftables": the worker main() instantiated
    resolv,       \* /etc/resolv.conf: the addresses of its nameserver lines
    qdb,          \* QubesDB: [Addrs -> [leaf -> raw value]] under /qubes-firewall/<addr>/
    watching,     \* qdb.watch('/qubes-firewall/') has been registered
    watchq,       \* watch events not yet returned by qdb.read_watch
    writer,       \* the store's writer: the rule-set update in progress
    nupd,         \* rule-set updates started so far
    kern,         \* kernel filter state, per family
    chains,       \* self.chains: the installed-chain registry, per family
    pc,           \* the daemon's position
    todo,         \* initial sweep: targets of list_targets() not yet visited
    h,            \* the handle_addr call in flight (or the last one)
    cln,          \* IptablesWorker.cleanup: loop position
    terminate_requested,
    nsig,         \* termination signals delivered
    exc,          \* the exception that ended the loop or the process
    stale,        \* addresses committed since handle_addr last read them
    handled       \* addresses for which handle_addr has returned

vars == <<backend, resolv, qdb, watching, watchq, writer, nupd, kern, chains,
          pc, todo, h, cln, terminate_requested, nsig, exc, stale, handled>>

-----------------------------------------------------------------------------
(* Bounds of the model *)

\* rule-set updates the store's writer starts during a run
MaxUpdates == 2
\* watch events the store keeps queued
MaxQueue == 2
\* termination signals delivered during a run
MaxSignals == 1

-----------------------------------------------------------------------------
(* Python values *)

None == "<None>"

Fam == {4, 6}

RECURSIVE Join(_)
Join(cs) == IF cs = <<>> THEN "" ELSE Head(cs) \o Join(Tail(cs))

RECURSIVE Count(_, _)
Count(cs, c) ==
    IF cs = <<>> THEN 0
    ELSE (IF Head(cs) = c THEN 1 ELSE 0) + Count(Tail(cs), c)

\* s.replace(old, new) on the characters of s, for a one-character old
Replace(cs, old, new) == [i \in 1..Len(cs) |-> IF cs[i] = old THEN new ELSE cs[i]]

\* s[-n:]
LastN(cs, n) == IF Len(cs) <= n THEN cs ELSE SubSeq(cs, Len(cs) - n + 1, Len(cs))

Range(s) == {s[i] : i \in 1..Len(s)}

-----------------------------------------------------------------------------
(* Source addresses *)

V4A == "10.137.0.5"
V6A == "fd09:24ef:4179::a89:7a"
V6B == "fe09:24ef:4179::a89:7a"

Addrs == {V4A, V6A, V6B}

\* the characters of each address literal of the model
AddrText(addr) ==
    CASE addr = V4A -> <<"1","0",".","1","3","7",".","0",".","5">>
      [] addr = V6A -> <<"f","d","0","9",":","2","4","e","f",":","4","1","7","9",
                         ":",":","a","8","9",":","7","a">>
      [] addr = V6B -> <<"f","e","0","9",":","2","4","e","f",":","4","1","7","9",
                         ":",":","a","8","9",":","7","a">>
      [] addr = "1.1.1.1" -> <<"1",".","1",".","1",".","1">>
      [] addr = "8.8.8.8" -> <<"8",".","8",".","8",".","8">>
      [] addr = "2001:db8::53" -> <<"2","0","0","1",":","d","b","8",":",":","5","3">>
      [] OTHER -> <<>>

is_ip6(addr) == Count(AddrText(addr), ":") > 0

FamilyOf(addr) == IF is_ip6(addr) THEN 6 ELSE 4

\* legacy chain name length limit
ChainTail == 20

IptChainForAddr(addr) ==
    "qbs-" \o Join(LastN(Replace(Replace(AddrText(addr), ".", "-"), ":", "-"), ChainTail))

NftChainForAddr(addr) ==
    "qbs-" \o Join(Replace(Replace(AddrText(addr), ".", "-"), ":", "-"))

chain_for_addr(be, addr) ==
    IF be = "iptables" THEN IptChainForAddr(addr) ELSE NftChainForAddr(addr)


-----------------------------------------------------------------------------
(* QubesDB values and read_rules *)

\* the strings the code sorts, in the order Python's sorted() gives them
\* (ASCII order)
AsciiOrder ==
    <<"0000", "00001", "0001", "00a0", "1.1.1.1", "1.1.1.1/32", "12",
      "192.0.2.0/24", "192.0.2.7/32", "2001:db8::/32", "2001:db8::53",
      "2001:db8::53/128", "2001:db8::7/128", "8.8.8.8", "8.8.8.8/32", "abcd",
      "icmp", "icmpv6", "policy", "tcp", "udp">>

\* the strings among them on which str.isdigit() is true
DigitLeaves == {"0000", "00001", "0001", "12"}

LeafRank(l) == CHOOSE i \in 1..Len(AsciiOrder) : AsciiOrder[i] = l

\* sorted(entries.items()): the keys are distinct, so the order is that of the keys
RECURSIVE SortedKeys(_)
SortedKeys(S) ==
    IF S = {} THEN <<>>
    ELSE LET m == CHOOSE x \in S : \A y \in S : LeafRank(x) <= LeafRank(y)
         IN  <<m>> \o SortedKeys(S \ {m})

\* the text of a raw value: its tokens joined by ' ', each token's parts by '='
RECURSIVE JoinWith(_, _)
JoinWith(ss, sep) ==
    IF ss = <<>> THEN ""
    ELSE IF Len(ss) = 1 THEN ss[1]
    ELSE ss[1] \o sep \o JoinWith(Tail(ss), sep)

RawText(v) == JoinWith([i \in 1..Len(v) |-> JoinWith(v[i], "=")], " ")

\* dict(pairs): the last pair of a key wins
Dict(tokens) ==
    [k \in {tokens[i][1] : i \in 1..Len(tokens)} |->
        LET last == CHOOSE i \in 1..Len(tokens) :
                        /\ tokens[i][1] = k
                        /\ \A j \in 1..Len(tokens) : tokens[j][1] = k => j <= i
        IN  tokens[last][2]]

Ok(v) == [kind |-> "ok", val |-> v]
Raise(e) == [kind |-> e]

\* the loop of read_rules over the sorted entries
RECURSIVE ReadLoop(_, _, _)
ReadLoop(keys, entries, rules) ==
    IF keys = <<>> THEN Ok(rules)
    ELSE LET ruleno == Head(keys)
             rule == entries[ruleno]
         IN  IF Len(ruleno) # 4 \/ ruleno \notin DigitLeaves
             THEN Raise("RuleParseError")
             ELSE IF \E i \in 1..Len(rule) : Len(rule[i]) # 2
             THEN Raise("ValueError")
             ELSE IF "action" \notin DOMAIN Dict(rule)
             THEN Raise("RuleParseError")
             ELSE ReadLoop(Tail(keys), entries, Append(rules, Dict(rule)))

\* entries: what multiread('/qubes-firewall/<target>/') returns, keyed by leaf
read_rules(entries) ==
    IF "policy" \notin DOMAIN entries THEN Raise("RuleParseError")
    ELSE LET policy == RawText(entries["policy"])
             r == ReadLoop(SortedKeys(DOMAIN entries \ {"policy"}), entries, <<>>)
         IN  IF r.kind = "ok"
             THEN Ok(Append(r.val, [k \in {"action"} |-> policy]))
             ELSE r

\* self.qdb.list('/qubes-firewall/'): the second path component of every key
list_targets(db) == {a \in DOMAIN db : DOMAIN db[a] # {}}

-----------------------------------------------------------------------------
(* The resolver and the system's nameservers *)

\* /etc/resolv.conf of the model: the addresses of its nameserver lines
ResolvConf == <<"1.1.1.1", "2001:db8::53", "8.8.8.8">>

\* a resolver lookup that ignores the family of the nameserver lines
AnyFamily(conf, family) == conf

\* dns_addresses(family) over the nameserver lines conf
RECURSIVE dns_addresses(_, _)
dns_addresses(conf, family) ==
    IF conf = <<>> THEN <<>>
    ELSE LET line == Head(conf)
             rest == dns_addresses(Tail(conf), family)
         IN  IF Count(AddrText(line), ".") = 3 /\ family = 4 THEN <<line>> \o rest
             ELSE IF Count(AddrText(line), ":") > 0 /\ family = 6 THEN <<line>> \o rest
             ELSE rest

\* socket.getaddrinfo(host, None, family) of the model: the addresses, or gaierror
getaddrinfo(host, family) ==
    CASE host = "example.org" ->
            Ok(IF family = 6 THEN {"2001:db8::7"} ELSE {"192.0.2.7"})
      [] host = "dns.example.org" ->
            Ok(IF family = 6 THEN {"2001:db8::53"} ELSE {"1.1.1.1", "8.8.8.8"})
      [] OTHER -> Raise("gaierror")

-----------------------------------------------------------------------------
(* Rule translation *)

supported_rule_opts ==
    {"action", "proto", "dst4", "dst6", "dsthost", "dstports", "specialtarget",
     "icmptype"}

Get(rule, k) == IF k \in DOMAIN rule THEN rule[k] ELSE None

\* a split that finds no separator
NoSplit(s) == <<s>>

\* s.split('-') for the port strings of the model
SplitDash(s) ==
    CASE s = "53-53" -> <<"53", "53">>
      [] s = "443-443" -> <<"443", "443">>
      [] s = "80-90" -> <<"80", "90">>
      [] s = "8000-8000" -> <<"8000", "8000">>
      [] OTHER -> <<s>>

\* str.upper() for the verdicts of the model
Upper(s) ==
    CASE s = "accept" -> "ACCEPT"
      [] s = "drop" -> "DROP"
      [] s = "reject" -> "REJECT"
      [] OTHER -> s

\* sorted() of a list
RECURSIVE Insert(_, _)
Insert(x, sorted) ==
    IF sorted = <<>> THEN <<x>>
    ELSE IF LeafRank(x) <= LeafRank(Head(sorted)) THEN <<x>> \o sorted
    ELSE <<Head(sorted)>> \o Insert(x, Tail(sorted))

RECURSIVE SortedList(_)
SortedList(l) == IF l = <<>> THEN <<>> ELSE Insert(Head(l), SortedList(Tail(l)))

fullmask(family) == IF family = 6 THEN "/128" ELSE "/32"

\* the rule lines IptablesWorker.prepare_rules emits for one rule: the body of
\* its loop, with dns the masked nameservers of the family
IptRule(chain, rule, family, dns) ==
    IF DOMAIN rule \ supported_rule_opts # {} THEN Raise("RuleParseError")
    ELSE IF "dst4" \in DOMAIN rule /\ family = 6 THEN Raise("RuleParseError")
    ELSE IF "dst6" \in DOMAIN rule /\ family = 4 THEN Raise("RuleParseError")
    ELSE IF /\ DOMAIN rule \cap {"dst4", "dst6"} = {}
            /\ "dsthost" \in DOMAIN rule
            /\ getaddrinfo(rule["dsthost"], family).kind # "ok"
         THEN Raise("RuleParseError")
    ELSE
    LET protos0 == IF "proto" \in DOMAIN rule
                   THEN (IF rule["proto"] = "icmp" /\ family = 6
                         THEN <<"icmpv6">> ELSE <<rule["proto"]>>)
                   ELSE None
        dsthosts0 == IF "dst4" \in DOMAIN rule THEN <<rule["dst4"]>>
                     ELSE IF "dst6" \in DOMAIN rule THEN <<rule["dst6"]>>
                     ELSE IF "dsthost" \in DOMAIN rule
                     THEN SortedKeys({a \o fullmask(family) :
                                a \in getaddrinfo(rule["dsthost"], family).val})
                     ELSE None
        dstports0 == IF "dstports" \in DOMAIN rule
                     THEN JoinWith(SplitDash(rule["dstports"]), ":")
                     ELSE None
        isdns == Get(rule, "specialtarget") = "dns"
        skip == isdns /\ (dstports0 \notin {"53:53", None} \/ dns = <<>>)
        dstports == IF isdns THEN "53:53" ELSE dstports0
        protos1 == IF ~isdns THEN protos0
                   ELSE IF protos0 # None
                   THEN SortedKeys({"tcp", "udp"} \cap Range(protos0))
                   ELSE <<"tcp", "udp">>
        dsthosts1 == IF ~isdns THEN dsthosts0
                     ELSE IF dsthosts0 # None
                     THEN SortedKeys(Range(dns) \cap Range(dsthosts0))
                     ELSE SortedList(dns)
        icmptype == Get(rule, "icmptype")
        protos == IF protos1 = None THEN <<None>> ELSE protos1
        dsthosts == IF dsthosts1 = None THEN <<None>> ELSE dsthosts1
        n == Len(dsthosts)
    IN  IF skip THEN Ok(<<>>)
        ELSE Ok([i \in 1..(Len(protos) * n) |->
                    [A |-> chain,
                     d |-> dsthosts[((i - 1) % n) + 1],
                     p |-> protos[((i - 1) \div n) + 1],
                     dport |-> dstports,
                     icmp |-> icmptype,
                     j |-> Upper(rule["action"])]])

RECURSIVE IptLoop(_, _, _, _, _)
IptLoop(chain, rules, family, dns, out) ==
    IF rules = <<>> THEN Ok(out)
    ELSE LET r == IptRule(chain, Head(rules), family, dns)
         IN  IF r.kind # "ok" THEN r
             ELSE IptLoop(chain, Tail(rules), family, dns, out \o r.val)

\* IptablesWorker.prepare_rules: the rule lines between *filter and COMMIT
IptPrepareRules(chain, rules, family, conf) ==
    IptLoop(chain, rules, family,
            [i \in 1..Len(dns_addresses(conf, family)) |->
                dns_addresses(conf, family)[i] \o fullmask(family)],
            <<>>)

\* the rules NftablesWorker.prepare_rules emits for one rule: the body of its
\* loop.  A rule is the sequence of its clauses, the verdict last.
NftRule(rule, family, dns) ==
    IF DOMAIN rule \ supported_rule_opts # {} THEN Raise("RuleParseError")
    ELSE IF "dst4" \in DOMAIN rule /\ family = 6 THEN Raise("RuleParseError")
    ELSE IF "dst6" \in DOMAIN rule /\ family = 4 THEN Raise("RuleParseError")
    ELSE IF /\ DOMAIN rule \cap {"dst4", "dst6"} = {}
            /\ "dsthost" \in DOMAIN rule
            /\ getaddrinfo(rule["dsthost"], family).kind # "ok"
         THEN Raise("RuleParseError")
    ELSE
    LET ip_match == IF family = 6 THEN "ip6" ELSE "ip"
        proto == IF "proto" \notin DOMAIN rule THEN <<>>
                 ELSE IF family = 4
                 THEN <<[kw |-> "ip protocol", arg |-> rule["proto"]]>>
                 ELSE <<[kw |-> "ip6 nexthdr",
                         arg |-> IF rule["proto"] = "icmp" THEN "icmpv6"
                                 ELSE rule["proto"]]>>
        daddr == IF "dst4" \in DOMAIN rule
                 THEN <<[kw |-> "ip daddr", arg |-> rule["dst4"]]>>
                 ELSE IF "dst6" \in DOMAIN rule
                 THEN <<[kw |-> "ip6 daddr", arg |-> rule["dst6"]]>>
                 ELSE IF "dsthost" \in DOMAIN rule
                 THEN <<[kw |-> ip_match \o " daddr",
                         set |-> {a \o fullmask(family) :
                                    a \in getaddrinfo(rule["dsthost"], family).val}]>>
                 ELSE <<>>
        dstports0 == IF "dstports" \in DOMAIN rule
                     THEN (IF Cardinality(Range(SplitDash(rule["dstports"]))) = 1
                           THEN SplitDash(rule["dstports"])[1]
                           ELSE rule["dstports"])
                     ELSE None
        isdns == Get(rule, "specialtarget") = "dns"
        skip == isdns /\ (dstports0 \notin {"53", None} \/ dns = <<>>)
        dstports == IF isdns THEN "53" ELSE dstports0
        dnsaddr == IF isdns
                   THEN <<[kw |-> ip_match \o " daddr", set |-> Range(dns)]>>
                   ELSE <<>>
        icmp == IF "icmptype" \notin DOMAIN rule THEN <<>>
                ELSE IF family = 4
                THEN <<[kw |-> "icmp type", arg |-> rule["icmptype"]]>>
                ELSE <<[kw |-> "icmpv6 type", arg |-> rule["icmptype"]]>>
        nft_rule == proto \o daddr \o dnsaddr \o icmp
        verdict == <<[verdict |-> rule["action"]]>>
    IN  IF skip THEN Ok(<<>>)
        ELSE IF dstports # None
        THEN (IF "proto" \notin DOMAIN rule
              THEN Ok(<<nft_rule \o <<[kw |-> "tcp dport", arg |-> dstports]>> \o verdict,
                        nft_rule \o <<[kw |-> "udp dport", arg |-> dstports]>> \o verdict>>)
              ELSE Ok(<<nft_rule
                        \o <<[kw |-> rule["proto"] \o " dport", arg |-> dstports]>>
                        \o verdict>>))
        ELSE Ok(<<nft_rule \o verdict>>)

RECURSIVE NftLoop(_, _, _, _)
NftLoop(rules, family, dns, out) ==
    IF rules = <<>> THEN Ok(out)
    ELSE LET r == NftRule(Head(rules), family, dns)
         IN  IF r.kind # "ok" THEN r
             ELSE NftLoop(Tail(rules), family, dns, out \o r.val)

\* NftablesWorker.prepare_rules: the rules of the chain block
NftPrepareRules(chain, rules, family, conf) ==
    NftLoop(rules, family,
            [i \in 1..Len(dns_addresses(conf, family)) |->
                dns_addresses(conf, family)[i] \o fullmask(family)],
            <<>>)

prepare_rules(be, chain, rules, family, conf) ==
    IF be = "iptables" THEN IptPrepareRules(chain, rules, family, conf)
    ELSE NftPrepareRules(chain, rules, family, conf)

-----------------------------------------------------------------------------
(* The kernel filter state of one family and what each tool invocation does  *)
(* to it.  k.top: the top-level forward chain (QBS-FORWARD, or chain forward *)
(* of table qubes-firewall) exists; k.policy: its policy; k.fwd: its rules;  *)
(* k.ch: the other chains of the table, by name.  Each operator gives        *)
(* Ok(the new state), or the tool's failure.                                 *)

NoChains == [c \in {} |-> <<>>]

Without(f, c) == [x \in DOMAIN f \ {c} |-> f[x]]

CalledProcessError == Raise("CalledProcessError")

\* iptables -F QBS-FORWARD
IptFlushForward(k) ==
    IF k.top THEN Ok([k EXCEPT !.fwd = <<>>]) ELSE CalledProcessError

\* a variant of IptAppendDrop that appends nothing: the default-deny property
\* must tell it from the code
AppendNothing(k) == Ok(k)

\* iptables -A QBS-FORWARD -j DROP
IptAppendDrop(k) ==
    IF k.top
    THEN Ok([k EXCEPT !.fwd = Append(@, [saddr |-> None, ct |-> FALSE, target |-> "DROP"])])
    ELSE CalledProcessError

\* iptables -N chain
IptNewChain(k, chain) ==
    IF chain \in DOMAIN k.ch THEN CalledProcessError
    ELSE Ok([k EXCEPT !.ch = (chain :> <<>>) @@ @])

\* iptables -I QBS-FORWARD -s addr -j chain
IptInsertJump(k, addr, chain) ==
    IF k.top /\ chain \in DOMAIN k.ch
    THEN Ok([k EXCEPT !.fwd = <<[saddr |-> addr, ct |-> FALSE, target |-> chain]>> \o @])
    ELSE CalledProcessError

\* a variant of IptFlushChain that empties nothing: a repeated apply must
\* tell it from the code
KeepContent(k, chain) == Ok(k)

\* a variant of IptFlushChain that leaves the chain's content: the residue
\* property must tell it from the code
FlushNothing(k, chain) ==
    IF chain \in DOMAIN k.ch THEN Ok(k) ELSE CalledProcessError

\* iptables -F chain
IptFlushChain(k, chain) ==
    IF chain \in DOMAIN k.ch THEN Ok([k EXCEPT !.ch[chain] = <<>>])
    ELSE CalledProcessError

\* a variant of IptDeleteChain that leaves the chain in the kernel: the
\* cleanup property must tell it from the code
DeleteNothing(k, chain) == Ok(k)

\* iptables -X chain
IptDeleteChain(k, chain) ==
    IF /\ chain \in DOMAIN k.ch
       /\ k.ch[chain] = <<>>
       /\ \A i \in 1..Len(k.fwd) : k.fwd[i].target # chain
    THEN Ok([k EXCEPT !.ch = Without(@, chain)])
    ELSE CalledProcessError

\* a line iptables-restore accepts: --dport needs -p tcp or -p udp
IptLoadable(l) == l.dport = None \/ l.p \in {"tcp", "udp"}

\* iptables-restore -n fed the lines: each is appended to its chain, all or none
IptRestore(k, lines) ==
    IF \A i \in 1..Len(lines) : lines[i].A \in DOMAIN k.ch /\ IptLoadable(lines[i])
    THEN Ok([k EXCEPT !.ch = [c \in DOMAIN k.ch |->
                k.ch[c] \o SelectSeq(lines, LAMBDA l : l.A = c)]])
    ELSE Raise("RuleApplyError")

\* nft: table <family> qubes-firewall { chain forward { type filter hook forward
\* priority 0; policy drop; ct state established,related accept } }
NftInitFamily(k) ==
    Ok([k EXCEPT !.top = TRUE, !.policy = "drop",
                 !.fwd = Append(@, [saddr |-> None, ct |-> TRUE, target |-> "accept"])])

\* nft: table { chain <chain> { } chain forward { <family> saddr <ip> jump <chain> } }
\* (without an <ip> the saddr clause is a syntax error)
NftCreateChain(k, addr, chain) ==
    IF addr = "" THEN Raise("RuleApplyError")
    ELSE Ok([k EXCEPT
               !.ch = IF chain \in DOMAIN @ THEN @ ELSE (chain :> <<>>) @@ @,
               !.fwd = Append(@, [saddr |-> addr, ct |-> FALSE, target |-> chain])])

\* a rule nft accepts: only tcp and udp have a dport
NftLoadable(r) ==
    \A i \in 1..(Len(r) - 1) :
        r[i].kw \in {"ip protocol", "ip6 nexthdr", "ip daddr", "ip6 daddr",
                     "icmp type", "icmpv6 type", "tcp dport", "udp dport"}

\* nft: flush chain <family> qubes-firewall <chain>; table { chain <chain> { rules } }
NftReplace(k, chain, rules) ==
    IF /\ k.top
       /\ chain \in DOMAIN k.ch
       /\ \A i \in 1..Len(rules) : NftLoadable(rules[i])
    THEN Ok([k EXCEPT !.ch[chain] = rules])
    ELSE Raise("RuleApplyError")

\* nft: delete table <family> qubes-firewall
NftDeleteTable(k) ==
    IF k.top
    THEN Ok([top |-> FALSE, policy |-> None, fwd |-> <<>>, ch |-> NoChains])
    ELSE Raise("RuleApplyError")

-----------------------------------------------------------------------------
(* The store's content *)

NoEntries == [l \in {} |-> <<>>]

PolicyDrop == "policy" :> <<<<"drop">>>>
PolicyAccept == "policy" :> <<<<"accept">>>>

\* the rule sets the store's writer commits
RuleSets ==
    { PolicyAccept,
      PolicyDrop @@ ("0000" :> << <<"action", "accept">>, <<"proto", "tcp">>,
                                  <<"dstports", "443-443">> >>),
      PolicyDrop @@ ("abcd" :> << <<"action", "accept">> >>),
      PolicyDrop @@ ("0000" :> << <<"action", "accept">>, <<"proto">> >>),
      PolicyDrop @@ ("0000" :> << <<"action", "accept">>,
                                  <<"dst6", "2001:db8::/32">> >>) }

Idle == [addr |-> None, rs |-> NoEntries, left |-> {}]

\* the events of a write are delivered once the watch is registered
Notify(path) == IF watching THEN Append(watchq, path) ELSE watchq

\* the process has not ended
Alive == pc \notin {"exited", "crashed", "fatal"}

\* main() has not reached cleanup(); the model follows the store and the
\* signal up to there
Serving == Alive /\ pc # "cleanup"

CanWrite == Serving /\ (watching => Len(watchq) < MaxQueue)

\* the writer starts an update of addr: it removes /qubes-firewall/<addr>/
BeginUpdate ==
    /\ CanWrite
    /\ writer.addr = None
    /\ nupd < MaxUpdates
    /\ \E a \in Addrs, rs \in RuleSets :
        /\ writer' = [addr |-> a, rs |-> rs, left |-> DOMAIN rs]
        /\ qdb' = [qdb EXCEPT ![a] = NoEntries]
        /\ watchq' = Notify(<<"", "qubes-firewall", a, "">>)
    /\ nupd' = nupd + 1
    /\ UNCHANGED <<backend, resolv, watching, kern, chains, pc, todo, h, cln,
                   terminate_requested, nsig, exc, stale, handled>>

\* the writer writes one key /qubes-firewall/<addr>/<leaf>
WriteKey ==
    /\ CanWrite
    /\ writer.addr # None
    /\ \E l \in writer.left :
        /\ qdb' = [qdb EXCEPT ![writer.addr] = (l :> writer.rs[l]) @@ @]
        /\ watchq' = Notify(<<"", "qubes-firewall", writer.addr, l>>)
        /\ writer' = [writer EXCEPT !.left = @ \ {l}]
    /\ UNCHANGED <<backend, resolv, watching, nupd, kern, chains, pc, todo, h, cln,
                   terminate_requested, nsig, exc, stale, handled>>

\* the commit barrier: the empty write to /qubes-firewall/<addr>
Commit ==
    /\ CanWrite
    /\ writer.addr # None
    /\ writer.left = {}
    /\ watchq' = Notify(<<"", "qubes-firewall", writer.addr>>)
    /\ stale' = stale \cup {writer.addr}
    /\ writer' = Idle
    /\ UNCHANGED <<backend, resolv, qdb, watching, nupd, kern, chains, pc, todo, h,
                   cln, terminate_requested, nsig, exc, handled>>

\* a client of the store removes the whole tree: qubesdb-rm /qubes-firewall/.
\* The event names the watched path itself
RemoveAll ==
    /\ CanWrite
    /\ writer.addr = None
    /\ nupd < MaxUpdates
    /\ qdb' = [a \in Addrs |-> NoEntries]
    /\ watchq' = Notify(<<"", "qubes-firewall", "">>)
    /\ nupd' = nupd + 1
    /\ UNCHANGED <<backend, resolv, watching, writer, kern, chains, pc, todo, h, cln,
                   terminate_requested, nsig, exc, stale, handled>>

\* self.qdb.multiread('/qubes-firewall/<target>/'): the keys under that prefix
multiread(target) == IF target \in DOMAIN qdb THEN qdb[target] ELSE NoEntries

-----------------------------------------------------------------------------
(* The daemon: FirewallWorker.main and handle_addr, one action per step      *)
(* (a store read, a tool invocation, a notification)                         *)

NoExc == [type |-> "none", at |-> "none"]

\* h.rd: what read_rules gave; h.rules: the rule list being applied
NoCall == [addr |-> None, ret |-> None, phase |-> "main", rd |-> Raise("none"),
           rules |-> <<>>]

FallbackRules == <<[action |-> "drop"]>>

Chain == chain_for_addr(backend, h.addr)
Family == FamilyOf(h.addr)

\* apply_rules_family up to its first tool invocation
ApplyEntry(registry, addr) ==
    IF chain_for_addr(backend, addr) \in registry[FamilyOf(addr)]
    THEN "prepare" ELSE "create"

\* where exception e, raised at step `at` of handle_addr, is handled: by the
\* except clauses of handle_addr, else by main's except OSError when the call
\* came from the watch loop, else by nobody
Handler(e, at) ==
    IF e = "RuleParseError" /\ h.phase = "main"
    THEN [pc |-> "log", phase |-> "fb_parse", exc |-> exc]
    ELSE IF e = "RuleApplyError" /\ h.phase = "main"
    THEN [pc |-> "log", phase |-> "fb_apply", exc |-> exc]
    ELSE IF e = "RuleApplyError" /\ h.phase = "fb_apply"
    THEN [pc |-> "log", phase |-> "gave_up", exc |-> exc]
    ELSE IF e = "OSError" /\ h.ret = "wait"
    THEN [pc |-> "cleanup", phase |-> h.phase, exc |-> [type |-> e, at |-> at]]
    ELSE [pc |-> "crashed", phase |-> h.phase, exc |-> [type |-> e, at |-> at]]

Raised(e, at) ==
    /\ pc' = Handler(e, at).pc
    /\ h' = [h EXCEPT !.phase = Handler(e, at).phase]
    /\ exc' = Handler(e, at).exc

\* the result of a tool invocation: what the kernel makes of it, or the
\* tool's failure for a reason of its own
Invoke(ok, result, failure) == IF ok THEN result ELSE Raise(failure)

\* main() up to init(): IptablesWorker.init or NftablesWorker.init
DaemonInit ==
    /\ pc = "start"
    /\ terminate_requested' = FALSE
    /\ IF backend = "iptables"
       THEN LET init(k) == IF k.top THEN IptAppendDrop(IptFlushForward(k).val).val
                           ELSE k
            IN  /\ kern' = [f \in Fam |->
                              IF f = 4 \/ kern[4].top THEN init(kern[f]) ELSE kern[f]]
                /\ pc' = IF kern[4].top /\ kern[6].top THEN "list" ELSE "fatal"
                /\ exc' = IF kern[4].top /\ kern[6].top THEN exc
                          ELSE [type |-> "SystemExit", at |-> "init"]
       ELSE \E ok \in BOOLEAN :
                IF ok
                THEN /\ kern' = [f \in Fam |-> NftInitFamily(kern[f]).val]
                     /\ pc' = "list"
                     /\ exc' = exc
                ELSE /\ kern' = kern
                     /\ pc' = "crashed"
                     /\ exc' = [type |-> "RuleApplyError", at |-> "init"]
    /\ UNCHANGED <<backend, resolv, qdb, watching, watchq, writer, nupd, chains,
                   todo, h, cln, nsig, stale, handled>>

\* the start-up scripts, then list_targets() for the initial sweep
ListTargets ==
    /\ pc = "list"
    /\ todo' = list_targets(qdb)
    /\ pc' = "sweep"
    /\ UNCHANGED <<backend, resolv, qdb, watching, watchq, writer, nupd, kern,
                   chains, h, cln, terminate_requested, nsig, exc, stale, handled>>

\* the initial sweep calls handle_addr for the next target
SweepNext ==
    /\ pc = "sweep"
    /\ \E a \in todo :
        /\ todo' = todo \ {a}
        /\ h' = [NoCall EXCEPT !.addr = a, !.ret = "sweep"]
    /\ pc' = "read"
    /\ UNCHANGED <<backend, resolv, qdb, watching, watchq, writer, nupd, kern,
                   chains, cln, terminate_requested, nsig, exc, stale, handled>>

\* self.qdb.watch('/qubes-firewall/') after the sweep
RegisterWatch ==
    /\ pc = "sweep"
    /\ todo = {}
    /\ watching' = TRUE
    /\ pc' = "wait"
    /\ UNCHANGED <<backend, resolv, qdb, watchq, writer, nupd, kern, chains, todo,
                   h, cln, terminate_requested, nsig, exc, stale, handled>>

\* a turn of the watch loop that hands every event to handle_addr: the event
\* filter must tell it from the code
ReadEveryEvent ==
    /\ pc = "wait"
    /\ watchq # <<>>
    /\ watchq' = Tail(watchq)
    /\ h' = [NoCall EXCEPT !.addr = Head(watchq)[3], !.ret = "wait"]
    /\ pc' = "read"
    /\ UNCHANGED <<backend, resolv, qdb, watching, writer, nupd, kern, chains, todo,
                   cln, terminate_requested, nsig, exc, stale, handled>>

\* one turn of the watch loop: read_watch returns the next event
ReadWatch ==
    /\ pc = "wait"
    /\ watchq # <<>>
    /\ watchq' = Tail(watchq)
    /\ IF Len(Head(watchq)) - 1 > 2
       THEN UNCHANGED <<pc, h>>
       ELSE /\ h' = [NoCall EXCEPT !.addr = Head(watchq)[3], !.ret = "wait"]
            /\ pc' = "read"
    /\ UNCHANGED <<backend, resolv, qdb, watching, writer, nupd, kern, chains, todo,
                   cln, terminate_requested, nsig, exc, stale, handled>>

\* handle_addr: rules = self.read_rules(addr)
ReadRules ==
    /\ pc = "read"
    /\ stale' = stale \ {h.addr}
    /\ LET r == read_rules(multiread(h.addr))
       IN  IF r.kind = "ok"
           THEN /\ h' = [h EXCEPT !.rd = r, !.rules = r.val]
                /\ pc' = ApplyEntry(chains, h.addr)
                /\ exc' = exc
           ELSE /\ pc' = Handler(r.kind, "read").pc
                /\ h' = [h EXCEPT !.rd = r, !.phase = Handler(r.kind, "read").phase]
                /\ exc' = Handler(r.kind, "read").exc
    /\ UNCHANGED <<backend, resolv, qdb, watching, watchq, writer, nupd, kern,
                   chains, todo, cln, terminate_requested, nsig, handled>>

\* IptablesWorker.create_chain: iptables -N chain
IptNew ==
    /\ pc = "create"
    /\ backend = "iptables"
    /\ \E ok \in BOOLEAN :
        LET r == Invoke(ok, IptNewChain(kern[Family], Chain), "CalledProcessError")
        IN  IF r.kind = "ok"
            THEN /\ kern' = [kern EXCEPT ![Family] = r.val]
                 /\ pc' = "insert"
                 /\ UNCHANGED <<h, exc>>
            ELSE /\ Raised(r.kind, "create")
                 /\ kern' = kern
    /\ UNCHANGED <<backend, resolv, qdb, watching, watchq, writer, nupd, chains,
                   todo, cln, terminate_requested, nsig, stale, handled>>

\* IptablesWorker.create_chain: iptables -I QBS-FORWARD -s addr -j chain, and
\* the chain joins the registry
IptInsert ==
    /\ pc = "insert"
    /\ \E ok \in BOOLEAN :
        LET r == Invoke(ok, IptInsertJump(kern[Family], h.addr, Chain),
                        "CalledProcessError")
        IN  IF r.kind = "ok"
            THEN /\ kern' = [kern EXCEPT ![Family] = r.val]
                 /\ chains' = [chains EXCEPT ![Family] = @ \cup {Chain}]
                 /\ pc' = "prepare"
                 /\ UNCHANGED <<h, exc>>
            ELSE /\ Raised(r.kind, "insert")
                 /\ UNCHANGED <<kern, chains>>
    /\ UNCHANGED <<backend, resolv, qdb, watching, watchq, writer, nupd, todo, cln,
                   terminate_requested, nsig, stale, handled>>

\* NftablesWorker.create_chain: one nft transaction, and the chain joins the
\* registry
NftCreate ==
    /\ pc = "create"
    /\ backend = "nftables"
    /\ \E ok \in BOOLEAN :
        LET r == Invoke(ok, NftCreateChain(kern[Family], h.addr, Chain),
                        "RuleApplyError")
        IN  IF r.kind = "ok"
            THEN /\ kern' = [kern EXCEPT ![Family] = r.val]
                 /\ chains' = [chains EXCEPT ![Family] = @ \cup {Chain}]
                 /\ pc' = "prepare"
                 /\ UNCHANGED <<h, exc>>
            ELSE /\ Raised(r.kind, "create")
                 /\ UNCHANGED <<kern, chains>>
    /\ UNCHANGED <<backend, resolv, qdb, watching, watchq, writer, nupd, todo, cln,
                   terminate_requested, nsig, stale, handled>>

Program == prepare_rules(backend, Chain, h.rules, Family, resolv)

\* apply_rules_family: self.prepare_rules(chain, rules, family)
Prepare ==
    /\ pc = "prepare"
    /\ IF Program.kind = "ok"
       THEN /\ pc' = IF backend = "iptables" THEN "flush" ELSE "nft"
            /\ UNCHANGED <<h, exc>>
       ELSE Raised(Program.kind, "prepare")
    /\ UNCHANGED <<backend, resolv, qdb, watching, watchq, writer, nupd, kern,
                   chains, todo, cln, terminate_requested, nsig, stale, handled>>

RuleApplyFailure(r) == IF r.kind = "ok" THEN r ELSE Raise("RuleApplyError")

\* IptablesWorker.apply_rules_family: iptables -F chain
IptFlush ==
    /\ pc = "flush"
    /\ \E ok \in BOOLEAN :
        LET r == RuleApplyFailure(Invoke(ok, IptFlushChain(kern[Family], Chain),
                                         "CalledProcessError"))
        IN  IF r.kind = "ok"
            THEN /\ kern' = [kern EXCEPT ![Family] = r.val]
                 /\ pc' = "restore"
                 /\ UNCHANGED <<h, exc>>
            ELSE /\ Raised(r.kind, "flush")
                 /\ kern' = kern
    /\ UNCHANGED <<backend, resolv, qdb, watching, watchq, writer, nupd, chains,
                   todo, cln, terminate_requested, nsig, stale, handled>>

\* IptablesWorker.apply_rules_family: iptables-restore -n
IptRestoreProgram ==
    /\ pc = "restore"
    /\ \E ok \in BOOLEAN :
        LET r == Invoke(ok, IptRestore(kern[Family], Program.val), "RuleApplyError")
        IN  IF r.kind = "ok"
            THEN /\ kern' = [kern EXCEPT ![Family] = r.val]
                 /\ pc' = "ret"
                 /\ UNCHANGED <<h, exc>>
            ELSE /\ Raised(r.kind, "restore")
                 /\ kern' = kern
    /\ UNCHANGED <<backend, resolv, qdb, watching, watchq, writer, nupd, chains,
                   todo, cln, terminate_requested, nsig, stale, handled>>

\* NftablesWorker.apply_rules_family: self.run_nft(program)
NftApply ==
    /\ pc = "nft"
    /\ \E ok \in BOOLEAN :
        LET r == Invoke(ok, NftReplace(kern[Family], Chain, Program.val),
                        "RuleApplyError")
        IN  IF r.kind = "ok"
            THEN /\ kern' = [kern EXCEPT ![Family] = r.val]
                 /\ pc' = "ret"
                 /\ UNCHANGED <<h, exc>>
            ELSE /\ Raised(r.kind, "nft")
                 /\ kern' = kern
    /\ UNCHANGED <<backend, resolv, qdb, watching, watchq, writer, nupd, chains,
                   todo, cln, terminate_requested, nsig, stale, handled>>

\* log_error in an except clause of handle_addr: the log line, then notify-send
\* (ok: subprocess.call could spawn it); after it the fallback rules are
\* applied, or, when the fallback failed too, handle_addr returns
LogError ==
    /\ pc = "log"
    /\ \E ok \in BOOLEAN :
        IF ~ok THEN Raised("OSError", "log")
        ELSE IF h.phase = "gave_up"
        THEN /\ pc' = "ret"
             /\ UNCHANGED <<h, exc>>
        ELSE /\ h' = [h EXCEPT !.rules = FallbackRules]
             /\ pc' = ApplyEntry(chains, h.addr)
             /\ exc' = exc
    /\ UNCHANGED <<backend, resolv, qdb, watching, watchq, writer, nupd, kern,
                   chains, todo, cln, terminate_requested, nsig, stale, handled>>

\* handle_addr returns to the sweep or to the watch loop
Return ==
    /\ pc = "ret"
    /\ pc' = h.ret
    /\ h' = NoCall
    /\ handled' = handled \cup {h.addr}
    /\ UNCHANGED <<backend, resolv, qdb, watching, watchq, writer, nupd, kern,
                   chains, todo, cln, terminate_requested, nsig, exc, stale>>

-----------------------------------------------------------------------------
(* cleanup() *)

\* IptablesWorker.cleanup: the loops' position after a step
Advance(c) ==
    IF c.stage = "chain" /\ c.left = {}
    THEN (IF c.fam = 4 THEN [fam |-> 6, stage |-> "fwd", left |-> {}, cur |-> None]
          ELSE [c EXCEPT !.stage = "done"])
    ELSE c

CleanupFailed(e) ==
    /\ pc' = "crashed"
    /\ exc' = [type |-> e, at |-> "cleanup"]

\* IptablesWorker.cleanup: iptables -F QBS-FORWARD of the family
CleanupFlushForward ==
    /\ pc = "cleanup"
    /\ backend = "iptables"
    /\ cln.stage = "fwd"
    /\ \E ok \in BOOLEAN :
        LET r == Invoke(ok, IptFlushForward(kern[cln.fam]), "CalledProcessError")
            c == Advance([cln EXCEPT !.stage = "chain", !.left = chains[cln.fam]])
        IN  IF r.kind = "ok"
            THEN /\ kern' = [kern EXCEPT ![cln.fam] = r.val]
                 /\ cln' = c
                 /\ pc' = IF c.stage = "done" THEN "exited" ELSE "cleanup"
                 /\ exc' = exc
            ELSE /\ CleanupFailed(r.kind)
                 /\ UNCHANGED <<kern, cln>>
    /\ UNCHANGED <<backend, resolv, qdb, watching, watchq, writer, nupd, chains,
                   todo, h, terminate_requested, nsig, stale, handled>>

\* IptablesWorker.cleanup: iptables -F chain, for the next chain of the registry
CleanupFlushChain ==
    /\ pc = "cleanup"
    /\ backend = "iptables"
    /\ cln.stage = "chain"
    /\ \E c \in cln.left, ok \in BOOLEAN :
        LET r == Invoke(ok, IptFlushChain(kern[cln.fam], c), "CalledProcessError")
        IN  IF r.kind = "ok"
            THEN /\ kern' = [kern EXCEPT ![cln.fam] = r.val]
                 /\ cln' = [cln EXCEPT !.stage = "del", !.cur = c]
                 /\ UNCHANGED <<pc, exc>>
            ELSE /\ CleanupFailed(r.kind)
                 /\ UNCHANGED <<kern, cln>>
    /\ UNCHANGED <<backend, resolv, qdb, watching, watchq, writer, nupd, chains,
                   todo, h, terminate_requested, nsig, stale, handled>>

\* IptablesWorker.cleanup: iptables -X chain
CleanupDeleteChain ==
    /\ pc = "cleanup"
    /\ backend = "iptables"
    /\ cln.stage = "del"
    /\ \E ok \in BOOLEAN :
        LET r == Invoke(ok, IptDeleteChain(kern[cln.fam], cln.cur), "CalledProcessError")
            c == Advance([cln EXCEPT !.stage = "chain", !.left = @ \ {cln.cur},
                                     !.cur = None])
        IN  IF r.kind = "ok"
            THEN /\ kern' = [kern EXCEPT ![cln.fam] = r.val]
                 /\ cln' = c
                 /\ pc' = IF c.stage = "done" THEN "exited" ELSE "cleanup"
                 /\ exc' = exc
            ELSE /\ CleanupFailed(r.kind)
                 /\ UNCHANGED <<kern, cln>>
    /\ UNCHANGED <<backend, resolv, qdb, watching, watchq, writer, nupd, chains,
                   todo, h, terminate_requested, nsig, stale, handled>>

\* NftablesWorker.cleanup: one nft transaction deleting both tables
NftCleanup ==
    /\ pc = "cleanup"
    /\ backend = "nftables"
    /\ \E ok \in BOOLEAN :
        IF ok /\ \A f \in Fam : NftDeleteTable(kern[f]).kind = "ok"
        THEN /\ kern' = [f \in Fam |-> NftDeleteTable(kern[f]).val]
             /\ pc' = "exited"
             /\ exc' = exc
        ELSE /\ CleanupFailed("RuleApplyError")
             /\ kern' = kern
    /\ UNCHANGED <<backend, resolv, qdb, watching, watchq, writer, nupd, chains,
                   todo, h, cln, terminate_requested, nsig, stale, handled>>

-----------------------------------------------------------------------------
(* The termination signal *)

\* the loop is blocked in qdb.read_watch
Blocked == pc = "wait" /\ watchq = <<>>

\* SIGTERM: the handler calls worker.terminate(); a read_watch the signal
\* interrupts fails with OSError (EINTR), which ends the watch loop
Sigterm ==
    /\ Serving
    /\ nsig < MaxSignals
    /\ nsig' = nsig + 1
    /\ terminate_requested' = TRUE
    /\ IF Blocked
       THEN /\ pc' = "cleanup"
            /\ exc' = [type |-> "OSError", at |-> "read_watch"]
       ELSE UNCHANGED <<pc, exc>>
    /\ UNCHANGED <<backend, resolv, qdb, watching, watchq, writer, nupd, kern,
                   chains, todo, h, cln, stale, handled>>

-----------------------------------------------------------------------------
(* The specification *)

EmptyFamily(top) == [top |-> top, policy |-> None, fwd |-> <<>>, ch |-> NoChains]

Init ==
    /\ backend \in {"iptables", "nftables"}
    /\ resolv = ResolvConf
    /\ qdb = [a \in Addrs |-> NoEntries]
    /\ watching = FALSE
    /\ watchq = <<>>
    /\ writer = Idle
    /\ nupd = 0
    /\ \E t \in [Fam -> BOOLEAN] :
        /\ backend = "nftables" => t = [f \in Fam |-> FALSE]
        /\ kern = [f \in Fam |-> EmptyFamily(t[f])]
    /\ chains = [f \in Fam |-> {}]
    /\ pc = "start"
    /\ todo = {}
    /\ h = NoCall
    /\ cln = [fam |-> 4, stage |-> "fwd", left |-> {}, cur |-> None]
    /\ terminate_requested = FALSE
    /\ nsig = 0
    /\ exc = NoExc
    /\ stale = {}
    /\ handled = {}

Next ==
    \/ BeginUpdate \/ WriteKey \/ Commit \/ RemoveAll
    \/ DaemonInit \/ ListTargets \/ SweepNext \/ RegisterWatch \/ ReadWatch
    \/ ReadRules \/ IptNew \/ IptInsert \/ NftCreate \/ Prepare
    \/ IptFlush \/ IptRestoreProgram \/ NftApply \/ LogError \/ Return
    \/ CleanupFlushForward \/ CleanupFlushChain \/ CleanupDeleteChain \/ NftCleanup
    \/ Sigterm

Spec == Init /\ [][Next]_vars

\* the daemon is one sequential thread: a step of it that can be taken is
\* taken.  Nothing obliges the store's writer or the sender of the signal to
\* act.
DaemonStep ==
    \/ DaemonInit \/ ListTargets \/ SweepNext \/ RegisterWatch \/ ReadWatch
    \/ ReadRules \/ IptNew \/ IptInsert \/ NftCreate \/ Prepare
    \/ IptFlush \/ IptRestoreProgram \/ NftApply \/ LogError \/ Return
    \/ CleanupFlushForward \/ CleanupFlushChain \/ CleanupDeleteChain \/ NftCleanup

FairSpec == Spec /\ WF_vars(DaemonStep)

-----------------------------------------------------------------------------
(* What the kernel does with a forwarded packet, given the filter state the  *)
(* daemon installed                                                          *)

\* the forwarded packets of the model, per family: est is the conntrack state
\* established or related
Packets(f) ==
    [src : IF f = 4 THEN {V4A, "10.137.0.9"} ELSE {V6A, V6B},
     est : BOOLEAN,
     proto : {"tcp", "udp"},
     dst : IF f = 4 THEN {"192.0.2.7", "1.1.1.1"} ELSE {"2001:db8::7", "2001:db8::53"},
     dport : {53, 443},
     icmptype : {None}]

\* addr is in the network a destination clause names
InNet(addr, net) ==
    \/ net \in {addr, addr \o "/32", addr \o "/128"}
    \/ net = "192.0.2.0/24" /\ addr = "192.0.2.7"
    \/ net = "2001:db8::/32" /\ addr \in {"2001:db8::7", "2001:db8::53"}

\* the ports a port clause names
PortIn(port, clause) ==
    CASE clause \in {"53", "53:53", "53-53"} -> port = 53
      [] clause \in {"443", "443:443", "443-443"} -> port = 443
      [] clause \in {"80:90", "80-90"} -> port \in 80..90
      [] clause \in {"8000", "8000:8000", "8000-8000"} -> port = 8000
      [] OTHER -> FALSE

IptMatches(r, pkt) ==
    /\ r.d = None \/ InNet(pkt.dst, r.d)
    /\ r.p = None \/ r.p = pkt.proto
    /\ r.dport = None \/ PortIn(pkt.dport, r.dport)
    /\ r.icmp = None \/ r.icmp = pkt.icmptype

NftClauseMatches(c, pkt) ==
    IF "set" \in DOMAIN c THEN \E n \in c.set : InNet(pkt.dst, n)
    ELSE CASE c.kw \in {"ip protocol", "ip6 nexthdr"} -> c.arg = pkt.proto
           [] c.kw \in {"ip daddr", "ip6 daddr"} -> InNet(pkt.dst, c.arg)
           [] c.kw \in {"icmp type", "icmpv6 type"} -> c.arg = pkt.icmptype
           [] c.kw = "tcp dport" -> pkt.proto = "tcp" /\ PortIn(pkt.dport, c.arg)
           [] c.kw = "udp dport" -> pkt.proto = "udp" /\ PortIn(pkt.dport, c.arg)
           [] OTHER -> FALSE

\* the verdict of one rule of a per-address chain on pkt, None when it does
\* not match
RuleVerdict(be, r, pkt) ==
    IF be = "iptables"
    THEN (IF IptMatches(r, pkt) THEN (IF r.j = "ACCEPT" THEN "accept" ELSE "drop")
          ELSE None)
    ELSE (IF \A i \in 1..(Len(r) - 1) : NftClauseMatches(r[i], pkt)
          THEN r[Len(r)].verdict ELSE None)

\* the verdict of a per-address chain: that of its first matching rule, else
\* the packet returns to the forward chain
RECURSIVE ChainVerdict(_, _, _)
ChainVerdict(be, rules, pkt) ==
    IF rules = <<>> THEN "return"
    ELSE IF RuleVerdict(be, Head(rules), pkt) # None
    THEN RuleVerdict(be, Head(rules), pkt)
    ELSE ChainVerdict(be, Tail(rules), pkt)

\* the verdict of the top-level forward chain from its rule i on: "by-chain"
\* marks an accept given by a per-address chain
RECURSIVE ForwardVerdict(_, _, _, _)
ForwardVerdict(be, k, i, pkt) ==
    IF i > Len(k.fwd) THEN (IF k.policy = None THEN "return" ELSE k.policy)
    ELSE LET r == k.fwd[i]
             hit == (r.saddr = None \/ r.saddr = pkt.src) /\ (r.ct => pkt.est)
             v == IF ~hit THEN "return"
                  ELSE IF r.target \in {"DROP", "drop"} THEN "drop"
                  ELSE IF r.target \in {"ACCEPT", "accept"} THEN "accept"
                  ELSE IF r.target \notin DOMAIN k.ch THEN "return"
                  ELSE IF ChainVerdict(be, k.ch[r.target], pkt) = "accept"
                  THEN "by-chain"
                  ELSE ChainVerdict(be, k.ch[r.target], pkt)
         IN  IF v # "return" THEN v ELSE ForwardVerdict(be, k, i + 1, pkt)

-----------------------------------------------------------------------------
(* Properties *)

\* the content of the kernel chain that serves addr, <<>> when the chain does
\* not exist
ChainExists(addr) ==
    chain_for_addr(backend, addr) \in DOMAIN kern[FamilyOf(addr)].ch

ChainContent(addr) ==
    IF ChainExists(addr)
    THEN kern[FamilyOf(addr)].ch[chain_for_addr(backend, addr)]
    ELSE <<>>

\* the rule set handle_addr read parses cleanly: read_rules and the
\* translation raise nothing
Stored == prepare_rules(backend, Chain, h.rd.val, Family, resolv)

ParsesCleanly == h.rd.kind = "ok" /\ Stored.kind = "ok"

\* the translation of the fallback rule list: one unconditional drop
DropOnly == prepare_rules(backend, Chain, FallbackRules, Family, resolv).val

Returning == pc = "ret"

\* C1 as claimed: whenever handle_addr returns for an address whose stored rule
\* set parses cleanly, the address's kernel chain holds exactly the
\* translation of the stored rules in identifier order, the policy verdict
\* last, and nothing else.
C1_TranslatedAfterCleanParse ==
    (Returning /\ ParsesCleanly) =>
        (ChainExists(h.addr) /\ ChainContent(h.addr) = Stored.val)

\* C1 amended: whenever handle_addr returns for an address whose stored rule
\* set parses cleanly and whose apply met no backend failure, the address's
\* kernel chain holds exactly the translation of the stored rules in
\* identifier order, the policy verdict last, and nothing of its earlier
\* content.
C1_TranslatedAfterCleanApply ==
    (Returning /\ ParsesCleanly /\ h.phase = "main") =>
        (ChainExists(h.addr) /\ ChainContent(h.addr) = Stored.val)

\* C1 witness: handle_addr returns from a clean apply of a two-rule program for
\* an address it has handled before.
C1_Witness ==
    /\ Returning /\ ParsesCleanly /\ h.phase = "main"
    /\ h.addr \in handled
    /\ Len(Stored.val) = 2

\* handle_addr has finished for an address whose rule set failed to parse or
\* to apply: it returned after an except clause ran, or an exception left it
FinishedAfterFailure ==
    \/ Returning /\ h.phase # "main"
    \/ /\ pc \in {"crashed", "cleanup"}
       /\ exc.at \in {"read", "create", "insert", "prepare", "flush", "restore",
                      "nft", "log"}

\* C2: once handle_addr has finished for an address whose stored rule set
\* failed to parse or failed to apply, the address's kernel chain holds
\* exactly one rule, the unconditional drop.
C2_DropAfterFailure ==
    FinishedAfterFailure =>
        (ChainExists(h.addr) /\ ChainContent(h.addr) = DropOnly)

\* the steps of handle_addr that invoke a backend tool
BackendSteps == {"create", "insert", "flush", "restore", "nft"}

\* C3: the failure of a backend step made for one address never aborts the
\* daemon: no exception raised by chain creation, flush, program submission
\* or the fallback install leaves handle_addr and ends the process.
C3_ApplyFailureNeverAborts ==
    ~(pc = "crashed" /\ exc.at \in BackendSteps)

\* init() has completed and cleanup() has not begun
Installed == Serving /\ pc # "start"

\* a forwarded packet of family f that opens a connection is dropped unless a
\* per-address chain accepts it
DefaultDeny(f) ==
    \A pkt \in Packets(f) :
        ~pkt.est => ForwardVerdict(backend, kern[f], 1, pkt) \in {"drop", "by-chain"}

C5_SignalEndsTheDaemon ==
    (terminate_requested /\ pc # "start") ~> ~Alive

\* C6: every rule-set commit for an address is eventually followed by a
\* read_rules of that address on a store state at least as new, as long as
\* the process lives.
C6_CommitEventuallyHandled ==
    \A a \in Addrs : (a \in stale) ~> (a \notin stale \/ ~Alive)

\* the jumps of the top-level forward chain of addr's family to addr's chain
JumpsTo(addr) ==
    LET k == kern[FamilyOf(addr)]
    IN  {i \in 1..Len(k.fwd) : k.fwd[i].target = chain_for_addr(backend, addr)}

\* C7: while the daemon serves, for every address it has handled, the
\* address's chain, when it exists in the kernel, is the target of exactly
\* one jump of the top-level forward chain, and that jump matches
\* saddr == the address.
C7_OneJumpPerChain ==
    Serving =>
        \A a \in handled :
            ChainExists(a) =>
                /\ Cardinality(JumpsTo(a)) = 1
                /\ \A i \in JumpsTo(a) : kern[FamilyOf(a)].fwd[i].saddr = a

\* the four malformations C8 lists, read off the stored entries
NoPolicy(entries) == "policy" \notin DOMAIN entries
RuleLeaves(entries) == DOMAIN entries \ {"policy"}
BadLeaf(entries) == \E l \in RuleLeaves(entries) : l \notin {"0000", "0001"}
Unsplittable(entries) ==
    \E l \in RuleLeaves(entries) : \E i \in 1..Len(entries[l]) : Len(entries[l][i]) # 2
LacksAction(entries) ==
    \E l \in RuleLeaves(entries) :
        \A i \in 1..Len(entries[l]) : entries[l][i][1] # "action"
Malformed(entries) ==
    NoPolicy(entries) \/ BadLeaf(entries) \/ Unsplittable(entries) \/ LacksAction(entries)

\* the rules by identifier, the synthetic policy rule last
OrderedRules(entries) ==
    LET keys == SortedKeys(RuleLeaves(entries))
    IN  [i \in 1..Len(keys) |-> Dict(entries[keys[i]])]
            \o <<[k \in {"action"} |-> RawText(entries["policy"])]>>

\* C8: on every stored rule set, read_rules raises RuleParseError and nothing
\* else when the policy is absent, a leaf is not a four-digit identifier, a
\* rule value does not split into k=v tokens or a rule lacks action; on any
\* other it returns the rules by identifier with the policy rule last.
C8_ReadRulesClassifies ==
    \A a \in Addrs :
        IF Malformed(qdb[a])
        THEN read_rules(qdb[a]).kind = "RuleParseError"
        ELSE read_rules(qdb[a]) = Ok(OrderedRules(qdb[a]))

\* C9: a failure of notify-send inside log_error never propagates out of
\* log_error.
C9_NotifyFailureContained ==
    ~(exc.type = "OSError" /\ exc.at = "log")

\* C10: after cleanup() has completed, no per-address chain remains in the
\* kernel for either family and what init() installed at the top level is
\* gone: the rules of QBS-FORWARD, or the qubes-firewall tables.
C10_CleanupRemovesAll ==
    pc = "exited" =>
        \A f \in Fam :
            /\ kern[f].ch = NoChains
            /\ kern[f].fwd = <<>>
            /\ backend = "nftables" => ~kern[f].top

\* C10 witness: cleanup() has completed after the daemon had created chains
\* in both families.
C10_Witness ==
    pc = "exited" /\ \A f \in Fam : chains[f] # {}

\* packets of established or related connections are accepted by the
\* top-level forward chain of family f
EstShortcut(f) ==
    \A pkt \in Packets(f) :
        pkt.est => ForwardVerdict(backend, kern[f], 1, pkt) = "accept"

\* C11: once init() has succeeded, for both families the top-level forward
\* chain exists, drops the forwarded packets that open a connection and
\* accepts those of established or related connections; when the hook point
\* is missing init() exits and no handle_addr is ever run.
C11_InitPosture ==
    /\ pc = "list" =>
          \A f \in Fam : kern[f].top /\ DefaultDeny(f) /\ EstShortcut(f)
    /\ pc = "fatal" => (h = NoCall /\ handled = {})

-----------------------------------------------------------------------------
(* Translation runs: the daemon starts on a store that holds one address,    *)
(* with a rule set that exercises prepare_rules, and handles it in the       *)
(* initial sweep                                                             *)

\* the contents of /etc/resolv.conf: both families, none, IPv6 only
ResolvConfs == {ResolvConf, <<>>, <<"2001:db8::53">>}

Accept == <<"action", "accept">>
Dns == <<"specialtarget", "dns">>

\* the rule sets of the translation runs
TranslateSets ==
    { PolicyAccept @@ ("0000" :> <<Accept, Dns>>),
      PolicyDrop @@ ("0000" :> <<Accept, <<"proto", "tcp">>, <<"dstports", "443">>>>),
      PolicyDrop @@ ("0000" :> <<Accept, <<"proto", "tcp">>, <<"dstports", "443-443">>>>),
      PolicyDrop @@ ("0000" :> <<Accept, <<"dstports", "8000-8000">>>>),
      PolicyDrop @@ ("0000" :> <<Accept, Dns, <<"dsthost", "dns.example.org">>>>),
      PolicyDrop @@ ("0000" :> <<Accept, Dns, <<"dsthost", "example.org">>>>),
      PolicyDrop @@ ("0000" :> <<Accept, Dns, <<"dst4", "1.1.1.1/32">>>>),
      PolicyDrop @@ ("0000" :> <<Accept, Dns, <<"dst6", "2001:db8::/32">>>>),
      PolicyDrop @@ ("0000" :> <<Accept, Dns, <<"proto", "icmp">>>>),
      PolicyDrop @@ ("0000" :> <<Accept, Dns, <<"proto", "udp">>>>),
      PolicyDrop @@ ("0000" :> <<Accept, Dns, <<"dstports", "53-53">>>>),
      PolicyDrop @@ ("0000" :> <<Accept, Dns, <<"dstports", "53">>>>),
      PolicyDrop @@ ("0000" :> <<Accept, Dns, <<"dstports", "443-443">>>>)
                 @@ ("0001" :> <<Accept, <<"proto", "tcp">>>>),
      PolicyDrop @@ ("0000" :> <<Accept, <<"proto", "udp">>>>)
                 @@ ("0001" :> <<Accept, Dns>>),
      PolicyDrop @@ ("0000" :> <<Accept, <<"proto", "tcp">>>>)
                 @@ ("0001" :> <<Accept, <<"dst6", "2001:db8::/32">>>>),
      PolicyDrop @@ ("0000" :> <<Accept, <<"dst4", "192.0.2.0/24">>>>)
                 @@ ("0001" :> <<Accept, <<"proto", "udp">>>>) }

TranslateInit ==
    /\ backend \in {"iptables", "nftables"}
    /\ resolv \in ResolvConfs
    /\ \E a \in {V4A, V6A}, rs \in TranslateSets :
          qdb = [x \in Addrs |-> IF x = a THEN rs ELSE NoEntries]
    /\ watching = FALSE
    /\ watchq = <<>>
    /\ writer = Idle
    /\ nupd = 0
    /\ kern = [f \in Fam |-> EmptyFamily(backend = "iptables")]
    /\ chains = [f \in Fam |-> {}]
    /\ pc = "start"
    /\ todo = {}
    /\ h = NoCall
    /\ cln = [fam |-> 4, stage |-> "fwd", left |-> {}, cur |-> None]
    /\ terminate_requested = FALSE
    /\ nsig = 0
    /\ exc = NoExc
    /\ stale = {}
    /\ handled = {}

TranslateNext ==
    \/ DaemonInit \/ ListTargets \/ SweepNext \/ RegisterWatch
    \/ ReadRules \/ IptNew \/ IptInsert \/ NftCreate \/ Prepare
    \/ IptFlush \/ IptRestoreProgram \/ NftApply \/ LogError \/ Return

TranslateSpec == TranslateInit /\ [][TranslateNext]_vars

-----------------------------------------------------------------------------
(* What an emitted rule matches, read off its clauses *)

Protocols == {"tcp", "udp", "icmp", "icmpv6"}
Ports == {53, 443, 8000}
Hosts(f) ==
    IF f = 4 THEN {"192.0.2.7", "1.1.1.1", "8.8.8.8"}
    ELSE {"2001:db8::7", "2001:db8::53"}

\* the protocol an nft port clause names
DportProto(kw) ==
    CASE kw = "tcp dport" -> "tcp"
      [] kw = "udp dport" -> "udp"
      [] kw = "icmp dport" -> "icmp"
      [] kw = "icmpv6 dport" -> "icmpv6"
      [] OTHER -> None

\* the protocols, ports and destinations the clauses of rule r admit
RuleProtos(be, r) ==
    IF be = "iptables"
    THEN (IF r.p = None THEN Protocols ELSE {r.p})
    ELSE {p \in Protocols :
            \A i \in 1..(Len(r) - 1) :
                /\ r[i].kw \in {"ip protocol", "ip6 nexthdr"} => r[i].arg = p
                /\ DportProto(r[i].kw) # None => DportProto(r[i].kw) = p}

RulePorts(be, r) ==
    IF be = "iptables"
    THEN (IF r.dport = None THEN Ports ELSE {n \in Ports : PortIn(n, r.dport)})
    ELSE {n \in Ports :
            \A i \in 1..(Len(r) - 1) :
                DportProto(r[i].kw) # None => PortIn(n, r[i].arg)}

RuleDests(be, r, f) ==
    IF be = "iptables"
    THEN (IF r.d = None THEN Hosts(f) ELSE {x \in Hosts(f) : InNet(x, r.d)})
    ELSE {x \in Hosts(f) :
            \A i \in 1..(Len(r) - 1) :
                r[i].kw \in {"ip daddr", "ip6 daddr"} =>
                    IF "set" \in DOMAIN r[i]
                    THEN \E n \in r[i].set : InNet(x, n)
                    ELSE InNet(x, r[i].arg)}

\* the nameservers of family f in /etc/resolv.conf
Nameservers(f) == {resolv[i] : i \in {j \in 1..Len(resolv) : FamilyOf(resolv[j]) = f}}

\* the destinations the entry itself names with dst4, dst6 or dsthost
EntryDests(e, f) ==
    IF "dst4" \in DOMAIN e THEN {x \in Hosts(f) : InNet(x, e["dst4"])}
    ELSE IF "dst6" \in DOMAIN e THEN {x \in Hosts(f) : InNet(x, e["dst6"])}
    ELSE IF "dsthost" \in DOMAIN e THEN getaddrinfo(e["dsthost"], f).val
    ELSE Hosts(f)

\* what prepare_rules emits for the one entry e of the list handle_addr read
EntryRules(e) ==
    LET ns == dns_addresses(resolv, Family)
        dns == [i \in 1..Len(ns) |-> ns[i] \o fullmask(Family)]
    IN  IF backend = "iptables" THEN IptRule(Chain, e, Family, dns)
        ELSE NftRule(e, Family, dns)

IsDns(e) == "specialtarget" \in DOMAIN e /\ e["specialtarget"] = "dns"

\* handle_addr has read a rule list and prepare_rules has translated it
Translated ==
    h.rd.kind = "ok" /\ h.phase = "main" /\ pc \in {"flush", "restore", "nft", "ret"}

\* C12: every rule emitted from an entry with specialtarget=dns admits only
\* tcp and udp, only destination port 53 and only nameservers of the
\* address's family that the entry's own dsthost, dst4 or dst6 also names.
C12_DnsRulesRestricted ==
    Translated =>
        \A i \in 1..Len(h.rd.val) :
            LET e == h.rd.val[i]
                out == EntryRules(e)
            IN  (IsDns(e) /\ out.kind = "ok") =>
                    \A n \in 1..Len(out.val) :
                        /\ RuleProtos(backend, out.val[n]) \subseteq {"tcp", "udp"}
                        /\ RulePorts(backend, out.val[n]) \subseteq {53}
                        /\ RuleDests(backend, out.val[n], Family)
                              \subseteq (Nameservers(Family) \cap EntryDests(e, Family))


\* the entry names a destination port other than the DNS port
OffDnsPort(e) ==
    "dstports" \in DOMAIN e /\ e["dstports"] \notin {"53", "53-53"}

\* the list without its i-th entry
Dropping(rules, i) == SubSeq(rules, 1, i - 1) \o SubSeq(rules, i + 1, Len(rules))

\* the rule that states the policy closes the translated list
PolicyLast ==
    LET out == Stored.val
        pol == h.rd.val[Len(h.rd.val)]["action"]
    IN  /\ out # <<>>
        /\ IF backend = "iptables"
           THEN out[Len(out)] = [A |-> Chain, d |-> None, p |-> None, dport |-> None,
                                 icmp |-> None, j |-> Upper(pol)]
           ELSE out[Len(out)] = <<[verdict |-> pol]>>

\* C13: an entry with specialtarget=dns emits no rule when the family has no
\* nameserver, and none when it names a destination port other than 53; the
\* rules of the other entries and the final policy rule are emitted as they
\* are without that entry.
C13_DnsEntrySkipped ==
    Translated =>
        \A i \in 1..(Len(h.rd.val) - 1) :
            LET e == h.rd.val[i]
            IN  (IsDns(e) /\ (Nameservers(Family) = {} \/ OffDnsPort(e))) =>
                    /\ EntryRules(e) = Ok(<<>>)
                    /\ Stored = prepare_rules(backend, Chain, Dropping(h.rd.val, i),
                                              Family, resolv)
                    /\ PolicyLast

\* C13 witness: handle_addr has installed a list whose dns entry names port
\* 443 while the family has nameservers; the chain holds the rule of the other
\* entry and the policy rule.
C13_Witness ==
    /\ Translated /\ pc = "ret"
    /\ Nameservers(Family) # {}
    /\ Len(h.rd.val) = 3
    /\ IsDns(h.rd.val[1]) /\ OffDnsPort(h.rd.val[1])
    /\ ChainContent(h.addr) = Stored.val
    /\ Len(Stored.val) = 2


\* an entry of the list with proto=tcp and a destination port, outside the
\* dns special target
TcpPortEntry(e) ==
    /\ ~IsDns(e)
    /\ DOMAIN e = {"action", "proto", "dstports"}
    /\ e["proto"] = "tcp"

\* the one line the legacy backend emits for entry e, with port clause dport
TcpLine(e, dport) ==
    Ok(<<[A |-> Chain, d |-> None, p |-> "tcp", dport |-> dport, icmp |-> None,
          j |-> Upper(e["action"])]>>)

\* C14 as stated: in the legacy backend an entry with proto=tcp and a single
\* port dstports=N is emitted with the port clause --dport N:N.
C14_SinglePortAsRange ==
    (Translated /\ backend = "iptables") =>
        \A i \in 1..(Len(h.rd.val) - 1) :
            LET e == h.rd.val[i]
            IN  (TcpPortEntry(e) /\ e["dstports"] = "443") =>
                    EntryRules(e) = TcpLine(e, "443:443")

\* C14 amended: in the legacy backend an entry with proto=tcp and a single
\* port dstports=N is emitted with the port clause --dport N, the text of
\* dstports with each "-" rewritten to ":"; only a range N-N is emitted as
\* N:N.
C14_SinglePortVerbatim ==
    (Translated /\ backend = "iptables") =>
        \A i \in 1..(Len(h.rd.val) - 1) :
            LET e == h.rd.val[i]
            IN  TcpPortEntry(e) =>
                    /\ e["dstports"] = "443" => EntryRules(e) = TcpLine(e, "443")
                    /\ e["dstports"] = "443-443" =>
                          EntryRules(e) = TcpLine(e, "443:443")

\* C14 witness: for 10.137.0.5 with policy drop and the one rule
\* action=accept proto=tcp dstports=443, chain qbs-10-137-0-5 holds
\* -p tcp --dport 443 -j ACCEPT and then -j DROP.
C14_Witness ==
    /\ pc = "ret" /\ backend = "iptables" /\ h.addr = V4A
    /\ qdb[V4A] = PolicyDrop @@ ("0000" :> <<Accept, <<"proto", "tcp">>, <<"dstports", "443">>>>)
    /\ ChainContent(V4A) =
          <<[A |-> "qbs-10-137-0-5", d |-> None, p |-> "tcp", dport |-> "443",
             icmp |-> None, j |-> "ACCEPT"],
            [A |-> "qbs-10-137-0-5", d |-> None, p |-> None, dport |-> None,
             icmp |-> None, j |-> "DROP"]>>


\* the list handle_addr read holds a dst4 rule for an IPv6 address or a dst6
\* rule for an IPv4 address
Mismatched ==
    /\ h.rd.kind = "ok"
    /\ \E i \in 1..Len(h.rd.val) :
          \/ "dst4" \in DOMAIN h.rd.val[i] /\ Family = 6
          \/ "dst6" \in DOMAIN h.rd.val[i] /\ Family = 4

\* C15: a rule list with a dst4 rule for an IPv6 address, or a dst6 rule for
\* an IPv4 address, fails translation with RuleParseError wherever the rule
\* stands; no rule of the list reaches the address's chain, and once
\* handle_addr has finished the chain holds the fallback drop.
C15_MismatchFallsBack ==
    Mismatched =>
        /\ Stored.kind = "RuleParseError"
        /\ ChainContent(h.addr) \in {<<>>, DropOnly}
        /\ pc \in {"ret", "crashed"} =>
              (ChainExists(h.addr) /\ ChainContent(h.addr) = DropOnly)


\* apply_rules(source_addr, rules) with every backend tool succeeding, from
\* the family's kernel state k and registry reg: the state it leaves, or the
\* exception it raises
apply_rules(k, reg, addr, rules) ==
    LET chain == chain_for_addr(backend, addr)
        family == FamilyOf(addr)
        made == IF chain \in reg THEN Ok(k)
                ELSE IF backend = "nftables" THEN NftCreateChain(k, addr, chain)
                ELSE LET n == IptNewChain(k, chain)
                     IN  IF n.kind = "ok" THEN IptInsertJump(n.val, addr, chain)
                         ELSE n
        prog == prepare_rules(backend, chain, rules, family, resolv)
        done == IF backend = "nftables" THEN NftReplace(made.val, chain, prog.val)
                ELSE LET fl == IptFlushChain(made.val, chain)
                     IN  IF fl.kind = "ok" THEN IptRestore(fl.val, prog.val)
                         ELSE Raise("RuleApplyError")
    IN  IF made.kind # "ok" THEN made
        ELSE IF prog.kind # "ok" THEN prog
        ELSE IF done.kind # "ok" THEN done
        ELSE Ok([k |-> done.val, reg |-> reg \cup {chain}])

\* C16: when apply_rules has installed a rule list for an address, applying
\* the same list for the same address once more, with the same nameservers,
\* leaves the family's chains, the jumps of its forward chain and the
\* registry as they are.
C16_ApplyIdempotent ==
    (Returning /\ h.phase = "main") =>
        apply_rules(kern[Family], chains[Family], h.addr, h.rules)
            = Ok([k |-> kern[Family], reg |-> chains[Family]])

\* C16 witness: apply_rules has installed a program of two rules.
C16_Witness ==
    /\ Returning /\ h.phase = "main"
    /\ Len(Program.val) = 2
    /\ ChainContent(h.addr) = Program.val


\* C17: a turn of the watch loop that takes an event whose path has more than
\* two "/" starts no handle_addr, reads nothing from the store and leaves the
\* kernel and the registry as they are; one that takes an event with at most
\* two "/" starts one handle_addr, for the second component of that path.
C17_EventFilter ==
    [][(pc = "wait" /\ watchq # <<>> /\ watchq' = Tail(watchq)) =>
          IF Len(Head(watchq)) - 1 > 2
          THEN /\ pc' = "wait" /\ h' = h
               /\ kern' = kern /\ chains' = chains /\ stale' = stale
          ELSE /\ pc' = "read"
               /\ h' = [NoCall EXCEPT !.addr = Head(watchq)[3], !.ret = "wait"]
               /\ kern' = kern /\ chains' = chains]_vars

\* C17 witness: the watch loop has started handle_addr for the address of a
\* commit event while the event of a rule key waits in the queue.
C17_Witness ==
    /\ pc = "read" /\ h.ret = "wait" /\ h.addr \in Addrs
    /\ watchq # <<>>
    /\ Len(Head(watchq)) = 4


\* the jumps of a family's forward chain k.fwd that match saddr == addr, and
\* the content of the chains they lead to
Serves(k, addr) ==
    LET js == SelectSeq(k.fwd, LAMBDA j : j.saddr = addr)
    IN  [i \in 1..Len(js) |->
            [jump |-> js[i],
             content |-> IF js[i].target \in DOMAIN k.ch THEN k.ch[js[i].target]
                         ELSE <<>>]]

\* the steps of handle_addr
HandleSteps == {"read", "create", "insert", "prepare", "flush", "restore", "nft", "log"}

\* C18: no step of handle_addr for one address changes the jump of another
\* address of the same family or the content of the chain that jump leads to.
C18_OtherChainsUntouched ==
    [][(pc \in HandleSteps) =>
          (\A b \in Addrs \ {h.addr} :
              FamilyOf(b) = Family =>
                  Serves(kern'[Family], b) = Serves(kern[Family], b))]_vars


\* the content of chain in the family's kernel state k, empty when it lacks it
ContentIn(k, chain) == IF chain \in DOMAIN k.ch THEN k.ch[chain] ELSE <<>>

\* C19: the backend step that first touches the content of the address's
\* chain during an install (iptables -F, the nft transaction) leaves the
\* chain with its complete previous content or with the complete new
\* program, never with anything else.
C19_InstallAtomic ==
    [][(pc \in {"flush", "nft"}) =>
          ContentIn(kern'[Family], Chain)
              \in {ContentIn(kern[Family], Chain), Program.val}]_vars


\* C20: from the end of init() to the start of cleanup(), outside the body of
\* create_chain, the registry of each family holds exactly the per-address
\* chains that exist in the kernel for that family, also after a step of
\* chain creation has failed.
C20_RegistryMatchesKernel ==
    (/\ pc \notin {"start", "fatal", "insert", "cleanup", "exited"}
     /\ exc.at # "cleanup") =>
        \A f \in Fam : DOMAIN kern[f].ch = chains[f]


\* C21: whenever handle_addr reads the rule set of an address from the store,
\* no update of that address is in progress: the writer is not between the
\* removal of the address's keys and its commit.
C21_ReadsCompleteSets ==
    [][(pc = "read" /\ pc' # "read") => writer.addr # h.addr]_vars


\* C22: no two distinct addresses of one family that the daemon has handled
\* have the same chain name: they never share a kernel chain and a registry
\* entry.
C22_ChainNamesInjective ==
    \A a \in handled : \A b \in handled \ {a} :
        (FamilyOf(a) = FamilyOf(b) /\ ChainExists(a) /\ ChainExists(b)) =>
            chain_for_addr(backend, a) # chain_for_addr(backend, b)


\* C23: handle_addr never runs for the empty address, and the kernel never
\* holds a chain or a jump made for it.
C23_NoEmptyAddress ==
    /\ h.addr # ""
    /\ \A f \in Fam :
          /\ chain_for_addr(backend, "") \notin DOMAIN kern[f].ch
          /\ \A i \in 1..Len(kern[f].fwd) : kern[f].fwd[i].saddr # ""

=============================================================================
